---- MODULE Spec2Model ----
(***************************************************************************)
(* Model of cpu.py: the CPU / memory stress tester.                        *)
(*                                                                         *)
(* The controller is one Python thread.  Its control state is a call       *)
(* stack of frames (main block, run_stress_test, stress_cpu /              *)
(* stress_memory, cleanup_processes, signal_handler).  A signal handler    *)
(* runs on top of whatever frame the signal interrupted, so delivering a   *)
(* signal pushes a signal_handler frame; sys.exit raises SystemExit, which *)
(* unwinds the stack through the except / finally clauses of the frames    *)
(* below.  Signals are taken where CPython checks for them: on entry to a  *)
(* function, after a call returns, inside a blocking call and on loop      *)
(* back-edges; every pc of a frame below is such a point.                  *)
(*                                                                         *)
(* Worker processes are independent OS processes; the controller only      *)
(* starts them, polls their liveness, and sends terminate / kill.          *)
(***************************************************************************)
EXTENDS Integers, Sequences, FiniteSets, TLC

(* ------------------------------ bounds --------------------------------- *)
MaxCores == 2
MaxMem == 1
MaxTime == 2
MaxSignals == 1
MaxFail == 1
MaxSelfExit == 1
MaxDashFail == 1

MaxWorkers == MaxCores + MaxMem
Workers == 1..MaxWorkers

VARIABLES
  args,              \* parsed command line (argparse namespace)
  stack,             \* call stack of the controller thread, top is last
  exc,               \* exception propagating up the stack, or "none"
  exitCode,          \* -1 while the program runs, then the process exit code
  installed,         \* tester.signal_handler is installed for SIGINT/SIGTERM
  running,           \* self.running
  processes,         \* self.processes
  memory_processes,  \* self.memory_processes
  wstate,            \* OS state of each worker process
  wkind,             \* workload of each worker process ("cpu" / "memory")
  nStarted,          \* number of worker processes started so far
  elapsed,           \* time.time() - start_time, in seconds
  hist               \* history record (observations used by the properties)

vars == <<args, stack, exc, exitCode, installed, running, processes,
          memory_processes, wstate, wkind, nStarted, elapsed, hist>>

(* ------------------------------ frames --------------------------------- *)
\* One uniform record shape for every frame:
\*   fn, pc   function and position (pc of a suspended frame = return address)
\*   all, i   cleanup_processes: the snapshot all_processes and the loop index
\*   n, p     stress_*: number of workers asked for, handle started but not yet
\*            appended (0 = none); i counts completed iterations
\*   pending  run_stress_test: exception to re-raise when the finally ends
\*   via, second, sent   observations about a cleanup_processes invocation:
\*            its caller, whether it directly follows a returned cleanup, and
\*            the number of terminate/kill calls it made
\*   ev       display_dashboard: what this call did so far, in order
\*            ("poll", "render", "log", "error")
Frame(fn, pc) ==
  [fn |-> fn, pc |-> pc, all |-> <<>>, i |-> 0, n |-> 0, p |-> 0,
   pending |-> "none", via |-> "none", second |-> FALSE, sent |-> 0,
   ev |-> <<>>]

Top == stack[Len(stack)]
Pop == SubSeq(stack, 1, Len(stack) - 1)
SetTop(f) == [stack EXCEPT ![Len(stack)] = f]
\* replace the top frame by f (its return address) and call g
Call(f, g) == Append(SetTop(f), g)
At(fn, pc) == stack # <<>> /\ exc = "none" /\ Top.fn = fn /\ Top.pc = pc
Exited == stack = <<>>

SeqToSet(s) == {s[k] : k \in 1..Len(s)}

\* a worker process that has not exited yet
Alive(w) == wstate[w] \in {"alive", "termsent", "killsent"}

(* ---------------------------- validate_args ---------------------------- *)
\* variant of validate_args: the memory size is not checked
validate_args_any_size(a) ==
  IF a.cores <= 0 THEN "Number of cores must be positive"
  ELSE IF a.time <= 0 THEN "Duration must be positive"
  ELSE IF a.intensity <= 0 THEN "Intensity must be positive"
  ELSE IF a.memory_processes < 0 THEN "Memory processes cannot be negative"
  ELSE "ok"

\* lines 273-290: the first failing check raises ValueError(message)
validate_args(a) ==
  IF a.cores <= 0 THEN "Number of cores must be positive"
  ELSE IF a.time <= 0 THEN "Duration must be positive"
  ELSE IF a.intensity <= 0 THEN "Intensity must be positive"
  ELSE IF a.memory_processes < 0 THEN "Memory processes cannot be negative"
  ELSE IF a.memory_size <= 0 THEN "Memory size must be positive"
  ELSE "ok"

ArgSpace ==
  [cores : -1..MaxCores, time : -1..MaxTime, intensity : -1..1,
   memory_processes : -1..MaxMem, memory_size : -1..1, cpu_only : BOOLEAN]

HistInit ==
  [sigCount       |-> 0,        \* signals handled by signal_handler
   sigBudget      |-> MaxSignals, \* signals the environment may still send, in all
   sigPhase       |-> "none",   \* where the first signal found the run (see Phase)
   sigInCleanup   |-> FALSE,    \* some signal arrived while a cleanup was on the stack
   sigInHandler   |-> FALSE,    \* some signal arrived while the handler was on the stack
   sigInFinal     |-> FALSE,    \* some signal arrived once the final cleanup was called
   firstTracked   |-> {},       \* workers tracked when cleanup_processes was first called
   trackedAtSig   |-> {},       \* workers tracked when the first signal arrived
   keyboardInt    |-> FALSE,    \* default SIGINT handling raised KeyboardInterrupt
   failCount      |-> 0,        \* exceptions caught inside cleanup_processes
   failed         |-> {},       \* workers whose terminate/join/kill raised
   selfExits      |-> 0,        \* workers that exited on their own
   exitedAlone    |-> {},       \* the workers that exited on their own
   spawnFailedAt  |-> 0,        \* k when starting the k-th worker raised
   trackedAtFail  |-> {},       \* workers tracked when that start raised
   startsAfterFail|-> 0,        \* p.start() calls made after a start raised
   loopFailed     |-> FALSE,    \* an exception escaped the monitoring loop
   dashFails      |-> 0,        \* polls / renders of display_dashboard that raised
   calls          |-> [handler |-> 0, finally |-> 0, legacy |-> 0],
   returns        |-> [handler |-> 0, finally |-> 0, legacy |-> 0],
   nonEmpty       |-> 0,        \* cleanup invocations whose snapshot was not empty
   cleanedSinceStart |-> TRUE,  \* cleanup_processes was called after the last p.start()
   lastReturned   |-> FALSE,    \* a cleanup returned and no worker was started since
   termCalls      |-> [w \in Workers |-> 0],
   killCalls      |-> [w \in Workers |-> 0],
   cleanupRaised  |-> FALSE,    \* an Exception left cleanup_processes
   runEntered     |-> FALSE,    \* run_stress_test was called
   logged         |-> {},       \* "completed", "error", "interrupt"
   runReturned    |-> FALSE]    \* run_stress_test returned normally

Init ==
  /\ args \in ArgSpace
  /\ stack = <<Frame("main", "validate")>>
  /\ exc = "none"
  /\ exitCode = -1
  /\ installed = FALSE
  /\ running = TRUE
  /\ processes = <<>>
  /\ memory_processes = <<>>
  /\ wstate = [w \in Workers |-> "unborn"]
  /\ wkind = [w \in Workers |-> "none"]
  /\ nStarted = 0
  /\ elapsed = 0
  /\ hist = HistInit

(* --------------------------- history updates --------------------------- *)
Bump(f, k) == [f EXCEPT ![k] = @ + 1]

\* cleanup_processes is being called by `via`
HistCall(via) ==
  [hist EXCEPT !.calls = Bump(@, via), !.cleanedSinceStart = TRUE,
               !.firstTracked =
                  IF hist.calls.handler + hist.calls.finally + hist.calls.legacy = 0
                    THEN SeqToSet(processes \o memory_processes) ELSE @]

\* the frame of a new cleanup_processes invocation
CleanupFrame(via) ==
  [Frame("cleanup_processes", "entry") EXCEPT
     !.via = via, !.second = hist.lastReturned]

StressFrame(fn, n) == [Frame(fn, "start") EXCEPT !.n = n]

procVars == <<processes, memory_processes, wstate, wkind, nStarted>>

(* ------------------------------ main block ----------------------------- *)
\* lines 309-310: parse_args, validate_args
main_validate ==
  /\ At("main", "validate")
  /\ IF validate_args(args) # "ok"
       THEN /\ exc' = "ValueError"
            /\ UNCHANGED stack
       ELSE /\ stack' = SetTop([Top EXCEPT !.pc = "init"])
            /\ UNCHANGED exc
  /\ UNCHANGED <<args, exitCode, installed, running, procVars, elapsed, hist>>

\* lines 315 / 331: tester = CPUStressTester()   (__init__, lines 71-76, 92-96)
main_init ==
  /\ At("main", "init")
  /\ installed' = TRUE
  /\ running' = TRUE
  /\ processes' = <<>>
  /\ memory_processes' = <<>>
  /\ stack' = SetTop([Top EXCEPT !.pc =
                 IF args.cpu_only THEN "legacy_stress" ELSE "advanced_run"])
  /\ UNCHANGED <<args, exc, exitCode, wstate, wkind, nStarted, elapsed, hist>>

\* line 316: tester.stress_cpu(args.cores, args.time, args.intensity)
main_legacy_stress ==
  /\ At("main", "legacy_stress")
  /\ stack' = Call([Top EXCEPT !.pc = "legacy_loop"],
                   StressFrame("stress_cpu", args.cores))
  /\ UNCHANGED <<args, exc, exitCode, installed, running, procVars, elapsed, hist>>

\* line 319: while tester.running and (time.time() - start_time) < args.time
main_legacy_loop ==
  /\ At("main", "legacy_loop")
  /\ stack' = SetTop([Top EXCEPT !.pc =
                 IF running /\ elapsed < args.time
                   THEN "legacy_poll" ELSE "legacy_cleanup"])
  /\ UNCHANGED <<args, exc, exitCode, installed, running, procVars, elapsed, hist>>

\* lines 320-325: psutil.cpu_percent(interval=1) blocks for one second
main_legacy_poll ==
  /\ At("main", "legacy_poll")
  /\ elapsed' = elapsed + 1
  /\ stack' = SetTop([Top EXCEPT !.pc = "legacy_loop"])
  /\ UNCHANGED <<args, exc, exitCode, installed, running, procVars, hist>>

\* line 320: the metrics call raises
main_legacy_poll_fail ==
  /\ At("main", "legacy_poll")
  /\ exc' = "Exception"
  /\ hist' = [hist EXCEPT !.loopFailed = TRUE]
  /\ UNCHANGED <<args, stack, exitCode, installed, running, procVars, elapsed>>

\* line 327: tester.cleanup_processes()
main_legacy_cleanup ==
  /\ At("main", "legacy_cleanup")
  /\ stack' = Call([Top EXCEPT !.pc = "legacy_done"], CleanupFrame("legacy"))
  /\ hist' = HistCall("legacy")
  /\ UNCHANGED <<args, exc, exitCode, installed, running, procVars, elapsed>>

\* line 343: tester.run_stress_test(...)
main_advanced_run ==
  /\ At("main", "advanced_run")
  /\ stack' = Call([Top EXCEPT !.pc = "advanced_done"],
                   Frame("run_stress_test", "stress_cpu"))
  /\ hist' = [hist EXCEPT !.runEntered = TRUE]
  /\ UNCHANGED <<args, exc, exitCode, installed, running, procVars, elapsed>>

\* lines 328 / 349: the main block ends, the interpreter exits with status 0
main_end ==
  /\ stack # <<>> /\ exc = "none" /\ Top.fn = "main"
  /\ Top.pc \in {"legacy_done", "advanced_done"}
  /\ stack' = <<>>
  /\ exitCode' = 0
  /\ UNCHANGED <<args, exc, installed, running, procVars, elapsed, hist>>

\* lines 351-359 and interpreter exit on SystemExit
ExitStatus(e) ==
  CASE e = "ValueError" -> 1
    [] e = "KeyboardInterrupt" -> 0
    [] e = "Exception" -> 1
    [] e = "SystemExit0" -> 0
    [] OTHER -> 1

main_except ==
  /\ stack # <<>> /\ exc # "none" /\ Top.fn = "main"
  /\ stack' = <<>>
  /\ exitCode' = ExitStatus(exc)
  /\ exc' = "none"
  /\ UNCHANGED <<args, installed, running, procVars, elapsed, hist>>

(* ----------------------- stress_cpu / stress_memory -------------------- *)
\* the exception classes that `except Exception` catches
IsException(e) == e \in {"Exception", "ValueError"}

InStress == stack # <<>> /\ Top.fn \in {"stress_cpu", "stress_memory"}

\* lines 210-211 / 224-225: p = multiprocessing.Process(...); p.start()
stress_start ==
  /\ InStress /\ exc = "none" /\ Top.pc = "start" /\ Top.i < Top.n
  /\ LET w == nStarted + 1 IN
       /\ wstate' = [wstate EXCEPT ![w] = "alive"]
       /\ wkind' = [wkind EXCEPT ![w] =
                      IF Top.fn = "stress_cpu" THEN "cpu" ELSE "memory"]
       /\ nStarted' = w
       /\ stack' = SetTop([Top EXCEPT !.pc = "append", !.p = w])
  /\ hist' = [hist EXCEPT !.cleanedSinceStart = FALSE, !.lastReturned = FALSE,
                          !.startsAfterFail =
                             IF hist.spawnFailedAt > 0 THEN @ + 1 ELSE @]
  /\ UNCHANGED <<args, exc, exitCode, installed, running, processes,
                 memory_processes, elapsed>>

\* lines 210-211 / 224-225: process creation raises
stress_start_fail ==
  /\ InStress /\ exc = "none" /\ Top.pc = "start" /\ Top.i < Top.n
  /\ exc' = "Exception"
  /\ hist' = [hist EXCEPT !.spawnFailedAt = nStarted + 1,
                          !.trackedAtFail = SeqToSet(processes \o memory_processes)]
  /\ UNCHANGED <<args, stack, exitCode, installed, running, procVars, elapsed>>

\* line 212 / 226: self.processes.append(p) / self.memory_processes.append(p)
stress_append ==
  /\ InStress /\ exc = "none" /\ Top.pc = "append"
  /\ IF Top.fn = "stress_cpu"
       THEN /\ processes' = Append(processes, Top.p)
            /\ UNCHANGED memory_processes
       ELSE /\ memory_processes' = Append(memory_processes, Top.p)
            /\ UNCHANGED processes
  /\ stack' = SetTop([Top EXCEPT !.pc = "start", !.p = 0, !.i = @ + 1])
  /\ UNCHANGED <<args, exc, exitCode, installed, running, wstate, wkind,
                 nStarted, elapsed, hist>>

\* lines 209, 214 / 223, 228: the for loop is exhausted, log, return
stress_return ==
  /\ InStress /\ exc = "none" /\ Top.pc = "start" /\ Top.i >= Top.n
  /\ stack' = Pop
  /\ UNCHANGED <<args, exc, exitCode, installed, running, procVars, elapsed, hist>>

\* variant of stress_except: the error is logged but not re-raised
stress_except_swallowed ==
  /\ InStress /\ exc # "none"
  /\ stack' = Pop
  /\ exc' = IF IsException(exc) THEN "none" ELSE exc
  /\ UNCHANGED <<args, exitCode, installed, running, procVars, elapsed, hist>>

\* lines 216-218 / 230-232: except Exception: log and re-raise (SystemExit
\* is not caught and leaves the function as well)
stress_except ==
  /\ InStress /\ exc # "none"
  /\ stack' = Pop
  /\ UNCHANGED <<args, exc, exitCode, installed, running, procVars, elapsed, hist>>


(* ---------------------------- run_stress_test -------------------------- *)
InRun == stack # <<>> /\ Top.fn = "run_stress_test"

\* positions inside the try body (lines 236-261)
TryPcs == {"stress_cpu", "mem_check", "loop", "tick", "sleep", "after_loop", "try_end"}

\* lines 237-246: system info, start message, self.stress_cpu(...)
run_stress_cpu ==
  /\ At("run_stress_test", "stress_cpu")
  /\ stack' = Call([Top EXCEPT !.pc = "mem_check"],
                   StressFrame("stress_cpu", args.cores))
  /\ UNCHANGED <<args, exc, exitCode, installed, running, procVars, elapsed, hist>>

\* variant of run_stress_memory: the memory workers are never started
run_stress_memory_skipped ==
  /\ At("run_stress_test", "mem_check")
  /\ stack' = SetTop([Top EXCEPT !.pc = "loop"])
  /\ UNCHANGED <<args, exc, exitCode, installed, running, procVars, elapsed, hist>>

\* lines 249-252: if memory_processes > 0: self.stress_memory(...); start_time
run_stress_memory ==
  /\ At("run_stress_test", "mem_check")
  /\ IF args.memory_processes > 0
       THEN stack' = Call([Top EXCEPT !.pc = "loop"],
                          StressFrame("stress_memory", args.memory_processes))
       ELSE stack' = SetTop([Top EXCEPT !.pc = "loop"])
  /\ UNCHANGED <<args, exc, exitCode, installed, running, procVars, elapsed, hist>>

\* line 255: while self.running and (time.time() - start_time) < duration
run_loop ==
  /\ At("run_stress_test", "loop")
  /\ stack' = SetTop([Top EXCEPT !.pc =
                 IF running /\ elapsed < args.time THEN "tick" ELSE "after_loop"])
  /\ UNCHANGED <<args, exc, exitCode, installed, running, procVars, elapsed, hist>>

\* line 256: self.display_dashboard(start_time, cpu_cores, memory_size, intensity)
run_tick ==
  /\ At("run_stress_test", "tick")
  /\ stack' = Call([Top EXCEPT !.pc = "sleep"], Frame("display_dashboard", "poll"))
  /\ UNCHANGED <<args, exc, exitCode, installed, running, procVars, elapsed, hist>>

\* variant of run_sleep: the clock does not advance
run_sleep_frozen ==
  /\ At("run_stress_test", "sleep")
  /\ stack' = SetTop([Top EXCEPT !.pc = "loop"])
  /\ UNCHANGED <<args, exc, exitCode, installed, running, procVars, elapsed, hist>>

\* line 257: time.sleep(1)
run_sleep ==
  /\ At("run_stress_test", "sleep")
  /\ elapsed' = elapsed + 1
  /\ stack' = SetTop([Top EXCEPT !.pc = "loop"])
  /\ UNCHANGED <<args, exc, exitCode, installed, running, procVars, hist>>

\* variant of run_after_loop: the flag is lowered when the run completes
run_after_loop_lowers_flag ==
  /\ At("run_stress_test", "after_loop")
  /\ stack' = SetTop([Top EXCEPT !.pc = "try_end"])
  /\ running' = FALSE
  /\ hist' = [hist EXCEPT !.logged = IF running THEN @ \cup {"completed"} ELSE @]
  /\ UNCHANGED <<args, exc, exitCode, installed, procVars, elapsed>>

\* lines 259-261: if self.running: report success
run_after_loop ==
  /\ At("run_stress_test", "after_loop")
  /\ stack' = SetTop([Top EXCEPT !.pc = "try_end"])
  /\ hist' = [hist EXCEPT !.logged = IF running THEN @ \cup {"completed"} ELSE @]
  /\ UNCHANGED <<args, exc, exitCode, installed, running, procVars, elapsed>>

\* lines 263-268: except KeyboardInterrupt / except Exception
run_except ==
  /\ InRun /\ Top.pc \in TryPcs
  /\ IsException(exc) \/ exc = "KeyboardInterrupt"
  /\ exc' = "none"
  /\ stack' = SetTop([Top EXCEPT !.pc = "except_end"])
  /\ hist' = [hist EXCEPT !.logged =
                 @ \cup {IF IsException(exc) THEN "error" ELSE "interrupted"}]
  /\ UNCHANGED <<args, exitCode, installed, running, procVars, elapsed>>

\* lines 269-270: finally: self.cleanup_processes(), reached normally.
\* The last point of the try / except block where a signal can be taken is
\* after its last call returned ("try_end", "except_end"); the finally block
\* holds nothing but the call, so entering it and calling are one step.
run_finally ==
  /\ InRun /\ exc = "none" /\ Top.pc \in {"try_end", "except_end"}
  /\ stack' = Call([Top EXCEPT !.pc = "end"], CleanupFrame("finally"))
  /\ hist' = HistCall("finally")
  /\ UNCHANGED <<args, exc, exitCode, installed, running, procVars, elapsed>>

\* variant of run_finally_raised: no finally clause, an exception that no
\* except clause takes leaves run_stress_test at once
run_finally_raised_absent ==
  /\ InRun /\ exc # "none"
  /\ \/ Top.pc \in TryPcs /\ ~IsException(exc) /\ exc # "KeyboardInterrupt"
     \/ Top.pc = "except_end"
  /\ stack' = Pop
  /\ UNCHANGED <<args, exc, exitCode, installed, running, procVars, elapsed, hist>>

\* lines 269-270: finally: self.cleanup_processes(), reached by an exception
\* that no except clause takes (SystemExit, or one raised in an except block)
run_finally_raised ==
  /\ InRun /\ exc # "none"
  /\ \/ Top.pc \in TryPcs /\ ~IsException(exc) /\ exc # "KeyboardInterrupt"
     \/ Top.pc = "except_end"
  /\ exc' = "none"
  /\ stack' = Call([Top EXCEPT !.pc = "end", !.pending = exc],
                   CleanupFrame("finally"))
  /\ hist' = HistCall("finally")
  /\ UNCHANGED <<args, exitCode, installed, running, procVars, elapsed>>

\* line 270 done: the finally block ends; return, or re-raise what was pending
run_end ==
  /\ At("run_stress_test", "end")
  /\ stack' = Pop
  /\ exc' = Top.pending
  /\ hist' = [hist EXCEPT !.runReturned = (Top.pending = "none")]
  /\ UNCHANGED <<args, exitCode, installed, running, procVars, elapsed>>

\* an exception raised inside the finally block leaves run_stress_test
run_unwind ==
  /\ InRun /\ exc # "none" /\ Top.pc = "end"
  /\ stack' = Pop
  /\ UNCHANGED <<args, exc, exitCode, installed, running, procVars, elapsed, hist>>

(* --------------------------- display_dashboard ------------------------- *)
InDashboard == stack # <<>> /\ Top.fn = "display_dashboard"
DashTryPcs == {"poll", "render", "log"}

\* lines 151-153: psutil.cpu_percent (overall, per core), psutil.virtual_memory
dash_poll ==
  /\ At("display_dashboard", "poll")
  /\ stack' = SetTop([Top EXCEPT !.pc = "render", !.ev = Append(@, "poll")])
  /\ UNCHANGED <<args, exc, exitCode, installed, running, procVars, elapsed, hist>>

\* lines 151-153: a psutil call raises
dash_poll_fail ==
  /\ At("display_dashboard", "poll")
  /\ hist.dashFails < MaxDashFail
  /\ exc' = "Exception"
  /\ stack' = SetTop([Top EXCEPT !.ev = Append(@, "poll")])
  /\ hist' = [hist EXCEPT !.dashFails = @ + 1]
  /\ UNCHANGED <<args, exitCode, installed, running, procVars, elapsed>>

\* variant of dash_render: the dashboard is printed and the call returns
\* without writing the metrics log line
dash_render_unlogged ==
  /\ At("display_dashboard", "render")
  /\ stack' = SetTop([Top EXCEPT !.pc = "return", !.ev = Append(@, "render")])
  /\ UNCHANGED <<args, exc, exitCode, installed, running, procVars, elapsed, hist>>

\* lines 156-197: clear the screen, print the dashboard
dash_render ==
  /\ At("display_dashboard", "render")
  /\ stack' = SetTop([Top EXCEPT !.pc = "log", !.ev = Append(@, "render")])
  /\ UNCHANGED <<args, exc, exitCode, installed, running, procVars, elapsed, hist>>

\* lines 156-197: a print raises after part of the dashboard was written
\* (an encoding error of the terminal, a closed stdout)
dash_render_fail ==
  /\ At("display_dashboard", "render")
  /\ hist.dashFails < MaxDashFail
  /\ exc' = "Exception"
  /\ stack' = SetTop([Top EXCEPT !.ev = Append(@, "render")])
  /\ hist' = [hist EXCEPT !.dashFails = @ + 1]
  /\ UNCHANGED <<args, exitCode, installed, running, procVars, elapsed>>

\* line 200: self.logger.info("Elapsed: ..., CPU: ..., Memory: ...")
dash_log ==
  /\ At("display_dashboard", "log")
  /\ stack' = SetTop([Top EXCEPT !.pc = "return", !.ev = Append(@, "log")])
  /\ UNCHANGED <<args, exc, exitCode, installed, running, procVars, elapsed, hist>>

\* variant of dash_except: the error is not caught, it leaves display_dashboard
dash_except_absent ==
  /\ InDashboard /\ IsException(exc) /\ Top.pc \in DashTryPcs
  /\ stack' = Pop
  /\ UNCHANGED <<args, exc, exitCode, installed, running, procVars, elapsed, hist>>

\* lines 202-204: except Exception: print and log "Dashboard error: ..."
dash_except ==
  /\ InDashboard /\ IsException(exc) /\ Top.pc \in DashTryPcs
  /\ exc' = "none"
  /\ stack' = SetTop([Top EXCEPT !.pc = "return", !.ev = Append(@, "error")])
  /\ UNCHANGED <<args, exitCode, installed, running, procVars, elapsed, hist>>

\* lines 203-204: the print of the except block raises in turn (the stdout
\* that failed the render fails again): the exception leaves display_dashboard
dash_except_raise ==
  /\ InDashboard /\ IsException(exc) /\ Top.pc \in DashTryPcs
  /\ stack' = Pop
  /\ hist' = [hist EXCEPT !.loopFailed = TRUE]
  /\ UNCHANGED <<args, exc, exitCode, installed, running, procVars, elapsed>>

\* line 204 / 200 done: display_dashboard returns
dash_return ==
  /\ At("display_dashboard", "return")
  /\ stack' = Pop
  /\ UNCHANGED <<args, exc, exitCode, installed, running, procVars, elapsed, hist>>

\* SystemExit raised by a signal handler is no Exception: it leaves
\* display_dashboard
dash_unwind ==
  /\ InDashboard /\ exc # "none" /\ ~IsException(exc)
  /\ stack' = Pop
  /\ UNCHANGED <<args, exc, exitCode, installed, running, procVars, elapsed, hist>>

(* --------------------------- cleanup_processes ------------------------- *)
InCleanup == stack # <<>> /\ Top.fn = "cleanup_processes"
CleanupAt(pc) == At("cleanup_processes", pc)
Cur == Top.all[Top.i]

NextWorker(f) == [f EXCEPT !.pc = "check", !.i = @ + 1]

\* line 108: all_processes = self.processes + self.memory_processes
cleanup_snapshot ==
  /\ CleanupAt("entry")
  /\ stack' = SetTop([Top EXCEPT !.all = processes \o memory_processes,
                                 !.i = 1, !.pc = "check"])
  /\ hist' = [hist EXCEPT !.nonEmpty =
                 IF processes \o memory_processes # <<>> THEN @ + 1 ELSE @]
  /\ UNCHANGED <<args, exc, exitCode, installed, running, procVars, elapsed>>

\* variant of cleanup_is_alive: a live worker is killed at once, without
\* terminate and grace period
cleanup_is_alive_kill_first ==
  /\ CleanupAt("check")
  /\ IF Top.i > Len(Top.all)
       THEN /\ stack' = SetTop([Top EXCEPT !.pc = "clear"])
            /\ UNCHANGED wstate
       ELSE IF Alive(Cur)
         THEN /\ stack' = SetTop([Top EXCEPT !.pc = "kill"])
              /\ UNCHANGED wstate
         ELSE /\ stack' = SetTop(NextWorker(Top))
              /\ wstate' = [wstate EXCEPT ![Cur] = "reaped"]
  /\ UNCHANGED <<args, exc, exitCode, installed, running, processes,
                 memory_processes, wkind, nStarted, elapsed, hist>>

\* lines 110-111: for p in all_processes: if p.is_alive()
\* (is_alive polls the child: a child that has exited is reaped by the poll)
cleanup_is_alive ==
  /\ CleanupAt("check")
  /\ IF Top.i > Len(Top.all)
       THEN /\ stack' = SetTop([Top EXCEPT !.pc = "clear"])
            /\ UNCHANGED wstate
       ELSE IF Alive(Cur)
         THEN /\ stack' = SetTop([Top EXCEPT !.pc = "terminate"])
              /\ UNCHANGED wstate
         ELSE /\ stack' = SetTop(NextWorker(Top))
              /\ wstate' = [wstate EXCEPT ![Cur] = "reaped"]
  /\ UNCHANGED <<args, exc, exitCode, installed, running, processes,
                 memory_processes, wkind, nStarted, elapsed, hist>>

\* line 113: p.terminate()
cleanup_terminate ==
  /\ CleanupAt("terminate")
  /\ wstate' = [wstate EXCEPT ![Cur] = IF @ = "alive" THEN "termsent" ELSE @]
  /\ stack' = SetTop([Top EXCEPT !.pc = "join", !.sent = @ + 1])
  /\ hist' = [hist EXCEPT !.termCalls = Bump(@, Cur)]
  /\ UNCHANGED <<args, exc, exitCode, installed, running, processes,
                 memory_processes, wkind, nStarted, elapsed>>

\* line 114: p.join(timeout=2): the worker exits within the grace period and
\* is reaped, or the wait times out
cleanup_join ==
  /\ CleanupAt("join")
  /\ \/ wstate' = [wstate EXCEPT ![Cur] = "reaped"]
     \/ /\ Alive(Cur)
        /\ UNCHANGED wstate
  /\ stack' = SetTop([Top EXCEPT !.pc = "check2"])
  /\ UNCHANGED <<args, exc, exitCode, installed, running, processes,
                 memory_processes, wkind, nStarted, elapsed, hist>>

\* variant of cleanup_is_alive2: no escalation, a worker that survived the
\* grace period is left alone
cleanup_is_alive2_no_kill ==
  /\ CleanupAt("check2")
  /\ stack' = SetTop(NextWorker(Top))
  /\ wstate' = [wstate EXCEPT ![Cur] = IF Alive(Cur) THEN @ ELSE "reaped"]
  /\ UNCHANGED <<args, exc, exitCode, installed, running, processes,
                 memory_processes, wkind, nStarted, elapsed, hist>>

\* line 115: if p.is_alive()
cleanup_is_alive2 ==
  /\ CleanupAt("check2")
  /\ IF Alive(Cur)
       THEN /\ stack' = SetTop([Top EXCEPT !.pc = "kill"])
            /\ UNCHANGED wstate
       ELSE /\ stack' = SetTop(NextWorker(Top))
            /\ wstate' = [wstate EXCEPT ![Cur] = "reaped"]
  /\ UNCHANGED <<args, exc, exitCode, installed, running, processes,
                 memory_processes, wkind, nStarted, elapsed, hist>>

\* line 116: p.kill()
cleanup_kill ==
  /\ CleanupAt("kill")
  /\ wstate' = [wstate EXCEPT ![Cur] = IF Alive(Cur) THEN "killsent" ELSE @]
  /\ stack' = SetTop([Top EXCEPT !.pc = "join2", !.sent = @ + 1])
  /\ hist' = [hist EXCEPT !.killCalls = Bump(@, Cur)]
  /\ UNCHANGED <<args, exc, exitCode, installed, running, processes,
                 memory_processes, wkind, nStarted, elapsed>>

\* line 117: p.join(): blocks until the worker has exited
cleanup_join2 ==
  /\ CleanupAt("join2")
  /\ wstate' = [wstate EXCEPT ![Cur] = "reaped"]
  /\ stack' = SetTop(NextWorker(Top))
  /\ UNCHANGED <<args, exc, exitCode, installed, running, processes,
                 memory_processes, wkind, nStarted, elapsed, hist>>

\* lines 113-117: terminate, join or kill raises
cleanup_raise ==
  /\ InCleanup /\ exc = "none"
  /\ Top.pc \in {"terminate", "join", "kill", "join2"}
  /\ hist.failCount < MaxFail
  /\ exc' = "Exception"
  /\ hist' = [hist EXCEPT !.failCount = @ + 1, !.failed = @ \cup {Cur}]
  /\ UNCHANGED <<args, stack, exitCode, installed, running, procVars, elapsed>>

\* variant of cleanup_except: the try block has no except clause, the error
\* leaves cleanup_processes
cleanup_except_uncaught ==
  /\ InCleanup /\ IsException(exc)
  /\ Top.pc \in {"terminate", "join", "kill", "join2"}
  /\ stack' = Pop
  /\ hist' = [hist EXCEPT !.cleanupRaised = TRUE]
  /\ UNCHANGED <<args, exc, exitCode, installed, running, procVars, elapsed>>

\* variant of cleanup_except: the error is logged and the loop is left
cleanup_except_stops ==
  /\ InCleanup /\ IsException(exc)
  /\ Top.pc \in {"terminate", "join", "kill", "join2"}
  /\ exc' = "none"
  /\ stack' = SetTop([Top EXCEPT !.pc = "clear"])
  /\ UNCHANGED <<args, exitCode, installed, running, procVars, elapsed, hist>>

\* lines 118-119: except Exception: log the error, go on with the next worker
cleanup_except ==
  /\ InCleanup /\ IsException(exc)
  /\ Top.pc \in {"terminate", "join", "kill", "join2"}
  /\ exc' = "none"
  /\ stack' = SetTop(NextWorker(Top))
  /\ UNCHANGED <<args, exitCode, installed, running, procVars, elapsed, hist>>

\* line 121: self.processes.clear()
cleanup_clear_processes ==
  /\ CleanupAt("clear")
  /\ processes' = <<>>
  /\ stack' = SetTop([Top EXCEPT !.pc = "clear2"])
  /\ UNCHANGED <<args, exc, exitCode, installed, running, memory_processes,
                 wstate, wkind, nStarted, elapsed, hist>>

\* variant of cleanup_clear_memory: the list is cleared only when every worker
\* was cleaned up without error
cleanup_clear_memory_if_ok ==
  /\ CleanupAt("clear2")
  /\ memory_processes' = IF hist.failed = {} THEN <<>> ELSE memory_processes
  /\ stack' = SetTop([Top EXCEPT !.pc = "return"])
  /\ UNCHANGED <<args, exc, exitCode, installed, running, processes,
                 wstate, wkind, nStarted, elapsed, hist>>

\* line 122: self.memory_processes.clear()
cleanup_clear_memory ==
  /\ CleanupAt("clear2")
  /\ memory_processes' = <<>>
  /\ stack' = SetTop([Top EXCEPT !.pc = "return"])
  /\ UNCHANGED <<args, exc, exitCode, installed, running, processes,
                 wstate, wkind, nStarted, elapsed, hist>>

\* line 123: log "All processes cleaned up" and return
cleanup_return ==
  /\ CleanupAt("return")
  /\ stack' = Pop
  /\ hist' = [hist EXCEPT !.returns = Bump(@, Top.via), !.lastReturned = TRUE]
  /\ UNCHANGED <<args, exc, exitCode, installed, running, procVars, elapsed>>

\* an exception that cleanup_processes does not catch (SystemExit raised by a
\* nested signal handler, or any exception outside the try) leaves it
cleanup_unwind ==
  /\ InCleanup /\ exc # "none"
  /\ ~(IsException(exc) /\ Top.pc \in {"terminate", "join", "kill", "join2"})
  /\ stack' = Pop
  /\ hist' = [hist EXCEPT !.cleanupRaised = @ \/ IsException(exc)]
  /\ UNCHANGED <<args, exc, exitCode, installed, running, procVars, elapsed>>

(* ----------------------------- signal_handler -------------------------- *)
HandlerAt(pc) == At("signal_handler", pc)
OnStack(fn) == \E k \in 1..Len(stack) : stack[k].fn = fn

\* Where a signal finds the run: "pre" before the orchestration starts, "body"
\* from there until the final cleanup_processes call (line 270 / 327) is made,
\* "final" from that call on.
Phase ==
  IF Len(stack) >= 2 /\ stack[2].fn = "run_stress_test"
    THEN IF stack[2].pc = "end" THEN "final" ELSE "body"
    ELSE IF stack[1].pc \in {"legacy_done", "advanced_done"} THEN "final"
    ELSE IF stack[1].pc \in {"legacy_stress", "legacy_loop", "legacy_poll",
                             "legacy_cleanup"} THEN "body"
    ELSE "pre"

\* SIGINT / SIGTERM arrives while tester.signal_handler is installed
\* (lines 94-96): the handler runs on top of the interrupted frame
signal_deliver ==
  /\ installed /\ ~Exited /\ exc = "none"
  /\ hist.sigCount < hist.sigBudget
  /\ stack' = Append(stack, Frame("signal_handler", "flag"))
  /\ hist' = [hist EXCEPT
       !.sigCount = @ + 1,
       !.sigPhase = IF hist.sigCount = 0 THEN Phase ELSE @,
       !.trackedAtSig = IF hist.sigCount = 0
                          THEN SeqToSet(processes \o memory_processes) ELSE @,
       !.sigInCleanup = @ \/ OnStack("cleanup_processes"),
       !.sigInHandler = @ \/ OnStack("signal_handler"),
       !.sigInFinal = @ \/ Phase = "final"]
  /\ UNCHANGED <<args, exc, exitCode, installed, running, procVars, elapsed>>

\* Ctrl+C before the tester exists: Python's default handler raises
\* KeyboardInterrupt in the main block (caught at lines 354-356)
default_sigint ==
  /\ ~installed /\ ~Exited /\ exc = "none"
  /\ ~hist.keyboardInt
  /\ exc' = "KeyboardInterrupt"
  /\ hist' = [hist EXCEPT !.keyboardInt = TRUE]
  /\ UNCHANGED <<args, stack, exitCode, installed, running, procVars, elapsed>>

\* lines 100-102: print, log, self.running = False
handler_flag ==
  /\ HandlerAt("flag")
  /\ running' = FALSE
  /\ stack' = SetTop([Top EXCEPT !.pc = "cleanup"])
  /\ hist' = [hist EXCEPT !.logged = @ \cup {"interrupt"}]
  /\ UNCHANGED <<args, exc, exitCode, installed, procVars, elapsed>>

\* variant of handler_cleanup: the handler only sets the flag and exits
handler_cleanup_skipped ==
  /\ HandlerAt("cleanup")
  /\ stack' = SetTop([Top EXCEPT !.pc = "exit"])
  /\ UNCHANGED <<args, exc, exitCode, installed, running, procVars, elapsed, hist>>

\* variant of handler_cleanup: the handler leaves the cleanup to the call it
\* interrupted when one is in progress
handler_cleanup_unless_nested ==
  /\ HandlerAt("cleanup")
  /\ IF \E k \in 1..Len(stack) : stack[k].fn = "cleanup_processes"
       THEN /\ stack' = SetTop([Top EXCEPT !.pc = "exit"])
            /\ UNCHANGED hist
       ELSE /\ stack' = Call([Top EXCEPT !.pc = "exit"], CleanupFrame("handler"))
            /\ hist' = HistCall("handler")
  /\ UNCHANGED <<args, exc, exitCode, installed, running, procVars, elapsed>>

\* line 103: self.cleanup_processes()
handler_cleanup ==
  /\ HandlerAt("cleanup")
  /\ stack' = Call([Top EXCEPT !.pc = "exit"], CleanupFrame("handler"))
  /\ hist' = HistCall("handler")
  /\ UNCHANGED <<args, exc, exitCode, installed, running, procVars, elapsed>>

\* line 104: sys.exit(0) raises SystemExit(0)
handler_exit ==
  /\ HandlerAt("exit")
  /\ exc' = "SystemExit0"
  /\ UNCHANGED <<args, stack, exitCode, installed, running, procVars, elapsed, hist>>

\* SystemExit leaves the handler and continues in the interrupted frame
handler_unwind ==
  /\ stack # <<>> /\ Top.fn = "signal_handler" /\ exc # "none"
  /\ stack' = Pop
  /\ UNCHANGED <<args, exc, exitCode, installed, running, procVars, elapsed, hist>>

(* ------------------------------- workers ------------------------------- *)
\* a worker exits on its own (memory_burn returns after an internal error,
\* lines 54-55, or the process is killed from outside).  The controller can
\* observe the exit only through is_alive (lines 111, 115), so the exit is
\* taken when the controller is about to poll that worker.
worker_exit(w) ==
  /\ CleanupAt("check") /\ Top.i <= Len(Top.all) /\ Cur = w
  /\ wstate[w] = "alive"
  /\ hist.selfExits < MaxSelfExit
  /\ wstate' = [wstate EXCEPT ![w] = "zombie"]
  /\ hist' = [hist EXCEPT !.selfExits = @ + 1, !.exitedAlone = @ \cup {w}]
  /\ UNCHANGED <<args, stack, exc, exitCode, installed, running, processes,
                 memory_processes, wkind, nStarted, elapsed>>

(* ---------------------------- specification ---------------------------- *)
Next ==
  \/ main_validate \/ main_init \/ main_legacy_stress \/ main_legacy_loop
  \/ main_legacy_poll \/ main_legacy_poll_fail \/ main_legacy_cleanup
  \/ main_advanced_run \/ main_end \/ main_except
  \/ stress_start \/ stress_start_fail \/ stress_append \/ stress_return
  \/ stress_except
  \/ run_stress_cpu \/ run_stress_memory \/ run_loop \/ run_tick
  \/ run_sleep \/ run_after_loop \/ run_except
  \/ dash_poll \/ dash_poll_fail \/ dash_render \/ dash_render_fail \/ dash_log
  \/ dash_except \/ dash_except_raise \/ dash_return \/ dash_unwind
  \/ run_finally \/ run_finally_raised \/ run_end \/ run_unwind
  \/ cleanup_snapshot \/ cleanup_is_alive \/ cleanup_terminate \/ cleanup_join
  \/ cleanup_is_alive2 \/ cleanup_kill \/ cleanup_join2 \/ cleanup_raise
  \/ cleanup_except \/ cleanup_clear_processes \/ cleanup_clear_memory
  \/ cleanup_return \/ cleanup_unwind
  \/ signal_deliver \/ default_sigint \/ handler_flag \/ handler_cleanup
  \/ handler_exit \/ handler_unwind
  \/ \E w \in Workers : worker_exit(w)

Spec == Init /\ [][Next]_vars

\* The controller thread is always scheduled and every call it makes returns
\* or raises: time advances (sleep returns) and a process that was sent kill
\* exits (join returns).  Signals, failures and workers exiting on their own
\* are up to the environment and need not happen.
ControllerStep ==
  \/ main_validate \/ main_init \/ main_legacy_stress \/ main_legacy_loop
  \/ main_legacy_poll \/ main_legacy_cleanup
  \/ main_advanced_run \/ main_end \/ main_except
  \/ stress_start \/ stress_append \/ stress_return \/ stress_except
  \/ run_stress_cpu \/ run_stress_memory \/ run_loop \/ run_tick
  \/ run_sleep \/ run_after_loop \/ run_except
  \/ run_finally \/ run_finally_raised \/ run_end \/ run_unwind
  \/ dash_poll \/ dash_render \/ dash_log \/ dash_except \/ dash_return
  \/ dash_unwind
  \/ cleanup_snapshot \/ cleanup_is_alive \/ cleanup_terminate \/ cleanup_join
  \/ cleanup_is_alive2 \/ cleanup_kill \/ cleanup_join2
  \/ cleanup_except \/ cleanup_clear_processes \/ cleanup_clear_memory
  \/ cleanup_return \/ cleanup_unwind
  \/ handler_flag \/ handler_cleanup \/ handler_exit \/ handler_unwind

SpecLive == Init /\ [][Next]_vars /\ WF_vars(ControllerStep)

\* Runs in which a second signal may follow the first one (a user pressing
\* Ctrl+C again, SIGTERM after SIGINT): one CPU worker, at most one memory
\* worker, one tick.
InitNested ==
  /\ args \in [cores : {1}, time : {1}, intensity : {1},
               memory_processes : 0..MaxMem, memory_size : {1}, cpu_only : BOOLEAN]
  /\ stack = <<Frame("main", "validate")>>
  /\ exc = "none"
  /\ exitCode = -1
  /\ installed = FALSE
  /\ running = TRUE
  /\ processes = <<>>
  /\ memory_processes = <<>>
  /\ wstate = [w \in Workers |-> "unborn"]
  /\ wkind = [w \in Workers |-> "none"]
  /\ nStarted = 0
  /\ elapsed = 0
  /\ hist = [HistInit EXCEPT !.sigBudget = MaxSignals + 1]

SpecNested == InitNested /\ [][Next]_vars

(* ----------------------------- memory_burn ------------------------------ *)
\* memory_burn(size_mb) runs in a worker process of its own.  Its frame keeps
\* size_mb in n, the list `data` in all (a chunk is named by its allocation
\* number) and the index of the allocation loop in i; elapsed counts the
\* completed cycles (the sleeps of line 52).
MaxSizeMb == 4
MaxCycles == 4

InMemoryBurn == stack # <<>> /\ Top.fn = "memory_burn"

\* a memory worker just entered memory_burn(args.memory_size): data = []
InitMem ==
  /\ args \in [cores : {1}, time : {1}, intensity : {1}, memory_processes : {1},
               memory_size : 1..MaxSizeMb, cpu_only : {FALSE}]
  /\ stack = <<[Frame("memory_burn", "alloc") EXCEPT !.n = args.memory_size]>>
  /\ exc = "none"
  /\ exitCode = -1
  /\ installed = FALSE
  /\ running = TRUE
  /\ processes = <<>>
  /\ memory_processes = <<>>
  /\ wstate = [w \in Workers |-> "unborn"]
  /\ wkind = [w \in Workers |-> "none"]
  /\ nStarted = 0
  /\ elapsed = 0
  /\ hist = HistInit

\* lines 35-40: for _ in range(size_mb): chunk = bytearray(...); data.append(chunk)
mem_alloc ==
  /\ At("memory_burn", "alloc")
  /\ IF Top.i < Top.n
       THEN stack' = SetTop([Top EXCEPT !.all = Append(@, elapsed * Top.n + Top.i + 1),
                                        !.i = @ + 1])
       ELSE stack' = SetTop([Top EXCEPT !.pc = "touch"])
  /\ UNCHANGED <<args, exc, exitCode, installed, running, procVars, elapsed, hist>>

\* line 36: bytearray(chunk_size) raises MemoryError
mem_alloc_fail ==
  /\ At("memory_burn", "alloc") /\ Top.i < Top.n
  /\ exc' = "Exception"
  /\ UNCHANGED <<args, stack, exitCode, installed, running, procVars, elapsed, hist>>

\* lines 43-46: rewrite bytes of up to 10 retained chunks; data keeps its length
mem_touch ==
  /\ At("memory_burn", "touch")
  /\ stack' = SetTop([Top EXCEPT !.pc = "trim"])
  /\ UNCHANGED <<args, exc, exitCode, installed, running, procVars, elapsed, hist>>

\* variant of mem_trim: nothing is ever discarded
mem_trim_never ==
  /\ At("memory_burn", "trim")
  /\ stack' = SetTop([Top EXCEPT !.pc = "sleep"])
  /\ UNCHANGED <<args, exc, exitCode, installed, running, procVars, elapsed, hist>>

\* lines 49-50: if len(data) > size_mb * 2: data = data[size_mb:]
mem_trim ==
  /\ At("memory_burn", "trim")
  /\ stack' = SetTop([Top EXCEPT
                        !.pc = "sleep",
                        !.all = IF Len(@) > Top.n * 2
                                  THEN SubSeq(@, Top.n + 1, Len(@)) ELSE @])
  /\ UNCHANGED <<args, exc, exitCode, installed, running, procVars, elapsed, hist>>

\* line 52: time.sleep(0.1), then the next cycle of `while True`
mem_sleep ==
  /\ At("memory_burn", "sleep")
  /\ elapsed < MaxCycles
  /\ elapsed' = elapsed + 1
  /\ stack' = SetTop([Top EXCEPT !.pc = "alloc", !.i = 0])
  /\ UNCHANGED <<args, exc, exitCode, installed, running, procVars, hist>>

\* lines 54-55: except Exception: print the error; memory_burn returns
mem_except ==
  /\ InMemoryBurn /\ IsException(exc)
  /\ exc' = "none"
  /\ stack' = Pop
  /\ hist' = [hist EXCEPT !.logged = @ \cup {"memory_error"}]
  /\ UNCHANGED <<args, exitCode, installed, running, procVars, elapsed>>

NextMem ==
  \/ mem_alloc \/ mem_alloc_fail \/ mem_touch \/ mem_trim \/ mem_sleep
  \/ mem_except

SpecMem == InitMem /\ [][NextMem]_vars

(* ------------------------------ usage bars ----------------------------- *)
\* The bars of display_dashboard (lines 173-176, 183-185).  psutil reports a
\* percentage rounded to one decimal, between 0.0 and 100.0; the frame keeps
\* it in n, in tenths of a percent, and the bar printed in all.
MaxUsageTenths == 1000
BarWidth == 20
PercentPerSegment == 5

\* "c" * k: the string of k copies of c, empty when k <= 0
Repeat(c, k) == [j \in 1..(IF k > 0 THEN k ELSE 0) |-> c]

\* variant of bar_length: the usage is rounded to the nearest segment
bar_length_rounded(usage) == (usage + 5 * PercentPerSegment) \div (10 * PercentPerSegment)

\* lines 174, 183: int(usage / 5), usage >= 0 given in tenths of a percent
bar_length(usage) == usage \div (10 * PercentPerSegment)

\* lines 175, 184: "█" * bar_length + "░" * (20 - bar_length)
bar(usage) ==
  Repeat("filled", bar_length(usage)) \o Repeat("empty", BarWidth - bar_length(usage))

\* display_dashboard is about to print the bar of one core, or the memory bar
InitBar ==
  /\ args \in [cores : {1}, time : {1}, intensity : {1}, memory_processes : {0},
               memory_size : {1}, cpu_only : {FALSE}]
  /\ \E u \in 0..MaxUsageTenths, pc \in {"core_bar", "memory_bar"} :
       stack = <<[Frame("display_dashboard", pc) EXCEPT !.n = u]>>
  /\ exc = "none"
  /\ exitCode = -1
  /\ installed = TRUE
  /\ running = TRUE
  /\ processes = <<>>
  /\ memory_processes = <<>>
  /\ wstate = [w \in Workers |-> "unborn"]
  /\ wkind = [w \in Workers |-> "none"]
  /\ nStarted = 0
  /\ elapsed = 0
  /\ hist = HistInit

\* lines 173-176: bar of one core
dash_core_bar ==
  /\ At("display_dashboard", "core_bar")
  /\ stack' = SetTop([Top EXCEPT !.pc = "printed", !.all = bar(Top.n)])
  /\ UNCHANGED <<args, exc, exitCode, installed, running, procVars, elapsed, hist>>

\* lines 183-185: memory bar
dash_memory_bar ==
  /\ At("display_dashboard", "memory_bar")
  /\ stack' = SetTop([Top EXCEPT !.pc = "printed", !.all = bar(Top.n)])
  /\ UNCHANGED <<args, exc, exitCode, installed, running, procVars, elapsed, hist>>

NextBar == dash_core_bar \/ dash_memory_bar

SpecBar == InitBar /\ [][NextBar]_vars

(* ------------------------------ properties ----------------------------- *)
TrackedEmpty == processes = <<>> /\ memory_processes = <<>>
Started == 1..nStarted
CleanupFrames == {k \in 1..Len(stack) : stack[k].fn = "cleanup_processes"}

\* C1: on every exit path of a run (normal completion, interrupt, exception
\* during spawning or the loop), in dashboard mode and in --cpu-only mode,
\* cleanup_processes has been invoked after the last worker was started by the
\* time the program exits.
C1_CleanupOnEveryExit ==
  (Exited /\ nStarted > 0) => hist.cleanedSinceStart

\* C2: once a call of cleanup_processes has run to its return, both tracked
\* lists are empty, whatever the liveness of the workers was and even if
\* terminate, join or kill raised for some worker.
C2_TrackedEmptyAfterCleanup ==
  /\ (InCleanup /\ Top.pc = "return") => TrackedEmpty
  /\ hist.lastReturned => TrackedEmpty

\* C2 witness: a cleanup is about to return after an error was caught for a
\* worker, which is still alive, and another worker was handled.
C2_Witness ==
  /\ CleanupAt("return")
  /\ Len(Top.all) >= 2
  /\ \E w \in hist.failed : Alive(w)

\* C3: cleanup_processes is idempotent: no call lets an error escape, the
\* tracked lists are empty after a call has returned, and a call made directly
\* after a returned call finds nothing to clean and sends no terminate or kill.
C3_CleanupIdempotent ==
  /\ ~hist.cleanupRaised
  /\ hist.lastReturned => TrackedEmpty
  /\ \A k \in CleanupFrames :
       stack[k].second => /\ stack[k].sent = 0
                          /\ stack[k].all = <<>>
                          /\ TrackedEmpty

\* C3 witness: the second of two calls in a row is about to return, the first
\* one having terminated a worker and caught an error.
C3_Witness ==
  /\ CleanupAt("return") /\ Top.second
  /\ \E w \in Workers : hist.termCalls[w] > 0
  /\ hist.failed # {}

\* no signal reached the program (neither the handler nor the default one)
NoSignal == hist.sigCount = 0 /\ ~hist.keyboardInt

\* C4 (as claimed): for every valid configuration, spawning and then calling
\* cleanup_processes leaves no tracked worker and every started worker exited
\* and reaped.
C4_AllReapedAfterCleanup ==
  (NoSignal /\ hist.lastReturned) =>
     /\ TrackedEmpty
     /\ \A w \in Started : wstate[w] = "reaped"

\* C4 (amended): for every valid configuration, spawning and then calling
\* cleanup_processes leaves no tracked worker, and every started worker for
\* which terminate, join and kill raised no error has exited and been reaped.
C4_ReapedUnlessFailed ==
  (NoSignal /\ hist.lastReturned) =>
     /\ TrackedEmpty
     /\ \A w \in Started : w \notin hist.failed => wstate[w] = "reaped"

\* C4 witness: the cleanup after spawning has returned; one worker was killed
\* after the grace period, another one survived because its cleanup raised.
C4_Witness ==
  /\ NoSignal /\ hist.lastReturned /\ validate_args(args) = "ok"
  /\ \E w \in Started : hist.killCalls[w] > 0 /\ wstate[w] = "reaped"
  /\ \E w \in Started : w \in hist.failed /\ Alive(w)

\* C5: one interrupt signal, delivered at any point of the run before the final
\* cleanup (spawning, tick, sleep, in between), triggers exactly one full
\* cleanup before the process exits: the handler's pass over the tracked
\* workers runs to completion exactly once, every worker tracked at the signal
\* is reaped by it (or its error is logged), no worker is sent terminate twice
\* and no other pass finds a worker to clean up.
C5_OneFullCleanupOnInterrupt ==
  (Exited /\ hist.sigCount = 1 /\ hist.sigPhase \in {"pre", "body"}) =>
     /\ hist.calls.handler = 1 /\ hist.returns.handler = 1
     /\ hist.nonEmpty <= 1
     /\ \A w \in Workers : hist.termCalls[w] <= 1 /\ hist.killCalls[w] <= 1
     /\ \A w \in hist.trackedAtSig : wstate[w] = "reaped" \/ w \in hist.failed

\* C5 witness: the program has exited after a signal that arrived mid-run with
\* workers tracked; the handler terminated them and the finally ran as well.
C5_Witness ==
  /\ Exited /\ hist.sigCount = 1 /\ hist.sigPhase = "body"
  /\ Cardinality(hist.trackedAtSig) >= 2
  /\ \A w \in hist.trackedAtSig : hist.termCalls[w] = 1
  /\ hist.calls.finally = 1

\* C6: every terminal transition of run_stress_test (Completed, Interrupted,
\* Failed) invokes cleanup_processes exactly once as its final step; when the
\* signal handler has already run cleanup_processes, that final call is the one
\* further invocation before exit, finds the tracked lists empty and raises no
\* error.
C6_FinalCleanupExactlyOnce ==
  /\ OnStack("run_stress_test") =>
        hist.calls.finally = IF stack[2].pc = "end" THEN 1 ELSE 0
  /\ (hist.runEntered /\ ~OnStack("run_stress_test")) => hist.calls.finally = 1
  /\ \A k \in CleanupFrames :
        (stack[k].via = "finally" /\ stack[k].second) =>
            TrackedEmpty /\ stack[k].all = <<>> /\ stack[k].sent = 0
  /\ ~hist.cleanupRaised
  /\ (Exited /\ hist.runEntered /\ hist.sigCount = 1 /\ hist.sigPhase = "body") =>
        /\ hist.calls.handler = 1 /\ hist.returns.handler = 1
        /\ hist.calls.finally = 1 /\ hist.returns.finally = 1

\* C6 witness: the run was interrupted with workers tracked, the handler
\* cleaned up, and the finally's call ran once more and returned.
C6_Witness ==
  /\ Exited /\ hist.runEntered /\ hist.sigPhase = "body"
  /\ hist.trackedAtSig # {}
  /\ hist.returns.handler = 1 /\ hist.returns.finally = 1

\* C7: the running flag starts true, is changed only by the signal handler and
\* only from true to false (so at most once, and never back); completion and
\* failure leave it true.
C7_RunningFlag ==
  /\ [](hist.sigCount = 0 => running)
  /\ [][running' # running => (running /\ HandlerAt("flag"))]_vars

\* C7 witness: the program has exited after the handler lowered the flag.
C7_Witness == Exited /\ ~running /\ hist.sigCount = 1

\* C8: the exit code is 0 when the run completes or is interrupted by the
\* user, and 1 when validation fails or an unexpected exception occurs
\* (process creation or anything else raised while spawning or monitoring).
C8_ExitCodes ==
  Exited =>
    /\ (   NoSignal
        /\ (validate_args(args) # "ok" \/ hist.spawnFailedAt > 0 \/ hist.loopFailed))
         => exitCode = 1
    /\ (   (validate_args(args) = "ok" \/ hist.keyboardInt)
        /\ hist.spawnFailedAt = 0 /\ ~hist.loopFailed)
         => exitCode = 0

\* C9 (as claimed): when starting the k-th worker fails in a dashboard run, the
\* failure reaches run_stress_test without retry, no further worker is started,
\* the run ends Failed, and the k-1 workers already started are all tracked and
\* are terminated by the cleanup that follows.
C9_SpawnFailureCleansUp ==
  (Exited /\ hist.runEntered /\ hist.spawnFailedAt > 0 /\ NoSignal) =>
     /\ hist.startsAfterFail = 0
     /\ nStarted = hist.spawnFailedAt - 1
     /\ "error" \in hist.logged /\ "completed" \notin hist.logged
     /\ hist.trackedAtFail = Started
     /\ \A w \in Started : wstate[w] = "reaped"

\* C9 (amended): ... and each of the k-1 workers is terminated by the cleanup
\* that follows unless terminate, join or kill raises for it.
C9_SpawnFailureCleansUpUnlessFailed ==
  (Exited /\ hist.runEntered /\ hist.spawnFailedAt > 0 /\ NoSignal) =>
     /\ hist.startsAfterFail = 0
     /\ nStarted = hist.spawnFailedAt - 1
     /\ "error" \in hist.logged /\ "completed" \notin hist.logged
     /\ hist.trackedAtFail = Started
     /\ hist.calls.finally = 1 /\ hist.returns.finally = 1
     /\ \A w \in Started : w \notin hist.failed => wstate[w] = "reaped"

\* C9 witness: starting the third worker failed; the two workers started
\* before were terminated by the cleanup and the program has exited.
C9_Witness ==
  /\ Exited /\ hist.runEntered /\ NoSignal
  /\ hist.spawnFailedAt >= 3
  /\ \A w \in Started : hist.termCalls[w] = 1 /\ wstate[w] = "reaped"

\* C10: run_stress_test starts exactly cpu_cores CPU workers and, when
\* memory_processes > 0, exactly memory_processes memory workers (none
\* otherwise); while the monitoring loop runs the tracked lists hold exactly
\* those workers; after run_stress_test returns the tracked lists are empty.
MemWanted == IF args.memory_processes > 0 THEN args.memory_processes ELSE 0
InMonitoringLoop ==
  /\ exc = "none"
  /\ \/ InRun /\ Top.pc \in {"loop", "tick", "sleep"}
     \/ InDashboard

C10_ExactWorkers ==
  /\ InMonitoringLoop =>
        /\ Len(processes) = args.cores
        /\ Len(memory_processes) = MemWanted
        /\ nStarted = args.cores + MemWanted
        /\ SeqToSet(processes) = {w \in Started : wkind[w] = "cpu"}
        /\ SeqToSet(memory_processes) = {w \in Started : wkind[w] = "memory"}
        /\ Cardinality(SeqToSet(processes)) = args.cores
        /\ Cardinality(SeqToSet(memory_processes)) = MemWanted
  /\ hist.runReturned => TrackedEmpty
  /\ (hist.runReturned /\ hist.spawnFailedAt = 0) =>
        /\ Cardinality({w \in Started : wkind[w] = "cpu"}) = args.cores
        /\ Cardinality({w \in Started : wkind[w] = "memory"}) = MemWanted

\* C10 witness: a run with two CPU workers and a memory worker has completed
\* and returned.
C10_Witness ==
  /\ hist.runReturned /\ "completed" \in hist.logged
  /\ args.cores >= 2 /\ args.memory_processes >= 1
  /\ nStarted = args.cores + args.memory_processes

\* C11 (as claimed): in memory_burn, for every size_mb > 0 and at every point
\* of execution, in the middle of an allocation cycle too, the number of
\* retained chunks never exceeds 2 * size_mb.
C11_AtMostTwiceAlways ==
  InMemoryBurn => Len(Top.all) <= 2 * Top.n

\* C11 (amended): in memory_burn, for every size_mb > 0, the number of retained
\* chunks never exceeds 2 * size_mb at the end of a cycle (from the trim to the
\* start of the next allocation), and never exceeds 3 * size_mb at any point;
\* the retained chunks are always the most recently allocated ones.
C11_TwiceAfterTrimThriceAlways ==
  InMemoryBurn =>
     /\ Top.n > 0
     /\ Len(Top.all) <= 3 * Top.n
     /\ (Top.pc = "sleep" \/ (Top.pc = "alloc" /\ Top.i = 0)) =>
           Len(Top.all) <= 2 * Top.n
     /\ \A k \in 1..(Len(Top.all) - 1) : Top.all[k + 1] = Top.all[k] + 1

\* C11 witness: the third allocation cycle is complete and the trim has not
\* run yet: 3 * size_mb chunks are retained.
C11_Witness ==
  /\ At("memory_burn", "trim")
  /\ Top.n = MaxSizeMb
  /\ Len(Top.all) = 3 * Top.n

\* C12: validate_args reports an error exactly when cores <= 0, or time <= 0,
\* or intensity <= 0, or memory_processes < 0, or memory_size <= 0, and accepts
\* every other argument tuple; when it reports an error the program exits with
\* status 1 and no worker process is ever spawned.
C12_ValidationGate ==
  LET bad == \/ args.cores <= 0 \/ args.time <= 0 \/ args.intensity <= 0
             \/ args.memory_processes < 0 \/ args.memory_size <= 0
      \* the main block is at or past validate_args / has reported its error
      accepted == stack # <<>> /\ stack[1].fn = "main" /\ stack[1].pc # "validate"
      reported == Exited /\ exitCode = 1 /\ ~installed
  IN  /\ exc = "ValueError" => bad
      /\ accepted => ~bad
      /\ (Exited /\ ~hist.keyboardInt) => (bad <=> reported)
      /\ bad => /\ nStarted = 0 /\ ~installed /\ TrackedEmpty
                /\ \A w \in Workers : wstate[w] = "unborn"

\* C12 witness: the program has exited with status 1 for the last check alone
\* (memory_size <= 0, every other argument valid), no worker started.
C12_Witness ==
  /\ Exited /\ exitCode = 1 /\ nStarted = 0
  /\ args.memory_size <= 0
  /\ args.cores > 0 /\ args.time > 0 /\ args.intensity > 0
  /\ args.memory_processes >= 0

\* C13: for each tracked worker that is alive, cleanup_processes first sends
\* terminate, then waits for the grace period, sends kill only if the worker
\* is still alive after that wait, and then blocks until the worker has
\* exited; kill is never sent to a worker before terminate was sent to it, nor
\* to a worker that exited within the grace period.
C13_TerminateWaitKill ==
  /\ \A k \in CleanupFrames :
       LET f == stack[k]
           w == f.all[f.i]
       IN  /\ f.pc \in {"join", "check2", "kill", "join2"} =>
                hist.termCalls[w] >= 1
           /\ f.pc = "join2" => hist.killCalls[w] >= 1
           /\ (k = Len(stack) /\ exc = "none" /\ f.pc = "kill") => Alive(w)
  /\ \A w \in Workers :
       /\ hist.killCalls[w] <= hist.termCalls[w]
       /\ wstate[w] = "killsent" =>
            \/ w \in hist.failed
            \/ \E k \in CleanupFrames :
                 stack[k].pc = "join2" /\ stack[k].all[stack[k].i] = w

\* C13 witness: in one cleanup a worker exited within the grace period and got
\* no kill, another one survived it, was killed and joined.
C13_Witness ==
  /\ InCleanup /\ exc = "none" /\ hist.sigCount = 0
  /\ \E v, w \in Started :
       /\ hist.termCalls[v] = 1 /\ hist.killCalls[v] = 0 /\ wstate[v] = "reaped"
       /\ hist.termCalls[w] = 1 /\ hist.killCalls[w] = 1 /\ wstate[w] = "reaped"

C15_PollRenderLogEveryTick ==
  \A k \in 1..Len(stack) :
    (stack[k].fn = "display_dashboard" /\ stack[k].pc = "return") =>
       stack[k].ev = <<"poll", "render", "log">>

\* C15 (amended): every iteration of the monitoring loop polls the metrics
\* once, then renders, then emits the metrics log line, each at most once and
\* in that order; an iteration in which neither the poll nor the render raises
\* does all three; when the poll raises nothing is rendered, when the render
\* raises the dashboard is left partly rendered, and in both cases an error
\* line takes the place of the metrics log line.
C15_PollRenderLogUnlessFailed ==
  \A k \in 1..Len(stack) :
    stack[k].fn = "display_dashboard" =>
      LET ev == stack[k].ev
          failing == k = Len(stack) /\ IsException(exc)
      IN  CASE stack[k].pc = "poll"   -> ev = <<>> \/ (failing /\ ev = <<"poll">>)
            [] stack[k].pc = "render" -> \/ ev = <<"poll">>
                                         \/ failing /\ ev = <<"poll", "render">>
            [] stack[k].pc = "log"    -> ev = <<"poll", "render">>
            [] stack[k].pc = "return" ->
                 ev \in {<<"poll", "render", "log">>,
                         <<"poll", "error">>,
                         <<"poll", "render", "error">>}

\* C15 witness: two iterations in a row: the call of the second tick is about
\* to return after poll, render and log, and no poll or render ever failed.
C15_Witness ==
  /\ At("display_dashboard", "return") /\ elapsed = 1
  /\ hist.dashFails = 0
  /\ Top.ev = <<"poll", "render", "log">>

\* C16: a failure of a single metrics poll or render inside a dashboard tick
\* is logged and shown as an error line, does not end the run, does not change
\* the tracked worker set, and the monitoring loop goes on to its next tick
\* while running is true and the duration has not elapsed.
C16_DashboardFailureTolerated ==
  (hist.dashFails > 0 /\ ~hist.loopFailed /\ NoSignal) =>
     /\ (InDashboard /\ Top.pc = "return" /\ Top.ev # <<"poll", "render", "log">>) =>
           Top.ev[Len(Top.ev)] = "error"
     /\ running
     /\ "error" \notin hist.logged
     /\ InMonitoringLoop =>
           /\ SeqToSet(processes \o memory_processes) = Started
           /\ Len(processes \o memory_processes) = nStarted
           /\ \A w \in Started : hist.termCalls[w] = 0 /\ hist.killCalls[w] = 0
     /\ (At("run_stress_test", "after_loop") \/ Exited) => elapsed >= args.time
     /\ Exited => "completed" \in hist.logged /\ exitCode = 0

\* C16 witness: the poll of the first tick failed and the second tick is
\* rendering.
C16_Witness ==
  /\ At("display_dashboard", "render") /\ elapsed = 1
  /\ hist.dashFails = 1 /\ ~hist.loopFailed /\ NoSignal
  /\ nStarted >= 2

\* C17: for every usage percentage given to the dashboard (per core or
\* memory) the rendered bar has exactly 20 segments, of which floor(usage / 5)
\* clamped to [0, 20] are filled, the filled ones first, and the rest empty;
\* usage 0 gives 0 filled, usage 45 gives 9, usage 100 gives 20.
C17_BarSegments ==
  At("display_dashboard", "printed") =>
    LET filled == {k \in 1..Len(Top.all) : Top.all[k] = "filled"}
        empty  == {k \in 1..Len(Top.all) : Top.all[k] = "empty"}
        floor  == CHOOSE q \in 0..Top.n : q * 50 <= Top.n /\ Top.n < (q + 1) * 50
        want   == IF floor > 20 THEN 20 ELSE floor
    IN  /\ Len(Top.all) = 20
        /\ filled = 1..want
        /\ empty = (want + 1)..20
        /\ Top.n = 0 => filled = {}
        /\ Top.n = 450 => Cardinality(filled) = 9
        /\ Top.n = 1000 => Cardinality(filled) = 20

\* C17 witness: the bar of a core at 44.9 % was printed with 8 filled
\* segments followed by 12 empty ones.
C17_Witness ==
  /\ At("display_dashboard", "printed")
  /\ Top.n = 449
  /\ Top.all = Repeat("filled", 8) \o Repeat("empty", 12)

\* C18: at every point where an interrupt signal can be delivered, every
\* worker that was started and is still alive is in the tracked lists (or in
\* the snapshot of a cleanup in progress); hence an interrupt arriving between
\* p.start() and the append of the handle cannot leave a live worker that no
\* cleanup terminates: when the program has exited after an interrupt, every
\* started worker was sent terminate, had exited on its own, or had its
\* failure logged by a cleanup.
C18_NoWorkerEscapesInterrupt ==
  (Exited /\ hist.sigCount > 0) =>
     \A w \in Started :
        \/ hist.termCalls[w] > 0
        \/ w \in hist.exitedAlone
        \/ w \in hist.failed

\* C19 (as claimed): if an interrupt signal arrives while cleanup_processes is
\* executing (the final cleanup, or the cleanup of an earlier handler run), the
\* nested cleanup raises no error and, when the program has exited, every
\* worker that was tracked when the first cleanup began has been sent
\* terminate and the tracked lists are empty.
C19_NestedCleanupTerminatesAll ==
  (Exited /\ hist.sigInCleanup) =>
     /\ ~hist.cleanupRaised
     /\ TrackedEmpty
     /\ \A w \in hist.firstTracked : hist.termCalls[w] > 0

\* C19 (amended): if an interrupt signal arrives while cleanup_processes is
\* executing, the nested cleanup raises no error and, when the program has
\* exited, the tracked lists are empty and every worker that was tracked when
\* the first cleanup began has been sent terminate, unless it had exited on
\* its own or its terminate, join or kill raised (which a cleanup logged).
C19_NestedCleanupTerminatesLive ==
  (Exited /\ hist.sigInCleanup) =>
     /\ ~hist.cleanupRaised
     /\ TrackedEmpty
     /\ \A w \in hist.firstTracked :
          \/ hist.termCalls[w] > 0
          \/ w \in hist.exitedAlone
          \/ w \in hist.failed
     /\ \A w \in hist.firstTracked \ hist.failed : wstate[w] = "reaped"

\* C19 witness: the program has exited after a second signal arrived inside
\* the cleanup of the first signal's handler; both workers tracked when that
\* cleanup began were terminated and are reaped.
C19_Witness ==
  /\ Exited /\ hist.sigInCleanup /\ hist.sigInHandler /\ hist.sigCount = 2
  /\ Cardinality(hist.firstTracked) = 2
  /\ \A w \in hist.firstTracked : hist.termCalls[w] > 0 /\ wstate[w] = "reaped"

\* C20 (as claimed): for every valid configuration, time advancing and killed
\* processes exiting, run_stress_test eventually reaches a terminal state and
\* its final cleanup_processes call eventually returns.
C20_FinalCleanupReturns ==
  hist.runEntered ~> (Exited /\ hist.returns.finally >= 1)

\* C20 (amended): for every valid configuration, time advancing and killed
\* processes exiting, run_stress_test is eventually left and the program
\* exits: the run stays neither in the monitoring loop nor inside a cleanup
\* forever.  Its final cleanup_processes call is always made, exactly once,
\* and has returned by then unless an interrupt signal arrived after that call
\* was made (the handler's own cleanup and exit then take its place).
C20_RunTerminates ==
  /\ hist.runEntered ~> Exited
  /\ [](    (Exited /\ hist.runEntered)
         => /\ hist.calls.finally = 1
            /\ hist.returns.finally = 1 \/ hist.sigInFinal)

\* C20 witness: a run with two ticks has ended, its final cleanup killed a
\* worker that survived the grace period and returned, the program has exited.
C20_Witness ==
  /\ Exited /\ hist.runEntered /\ hist.returns.finally = 1
  /\ elapsed = 2 /\ NoSignal
  /\ \E w \in Started : hist.killCalls[w] = 1 /\ wstate[w] = "reaped"

====
